---- MODULE Spec2Model ----
(***************************************************************************)
(* AkShare MCP server: the three history handlers of akshare_mcp_server.py *)
(* (stock_us_hist, stock_hk_hist, stock_zh_a_hist), the standalone copy in *)
(* tools/stock_hk_hist.py, and the start-up path of start_server.py.       *)
(*                                                                         *)
(* Text is modelled as sequences of one-character strings where the code   *)
(* looks inside it (dates), and as opaque strings elsewhere.  The Chinese  *)
(* literals of the source are written in pinyin.                           *)
(***************************************************************************)
EXTENDS Integers, Sequences, FiniteSets, TLC

VARIABLES
    req,        \* the arguments the handlers are called with
    pc,         \* per caller: position inside the handler
    handler,    \* per caller: which of the four functions is running
    df,         \* per caller: the local variable df (a reference into frames)
    result,     \* per caller: the value the call returned
    trace,      \* per caller: log entries and provider invocations of the call
    pred,       \* per caller: callers whose call had returned when this began
    answer,     \* what the data provider does for req (fixed once asked)
    frames,     \* the heap of record sets (DataFrame objects)
    boot,       \* start-up: position of the start script
    logsDir,    \* start-up: does the directory logs/ exist
    env,        \* start-up: HOST / PORT / TRANSPORT of the environment
    config,     \* start-up: the ServerConfig defaults bound at import
    srvLog      \* start-up: entries main() wrote through the logger

hvars == <<req, pc, handler, df, result, trace, pred, answer, frames>>
bvars == <<boot, logsDir, env, config, srvLog>>
vars == <<req, pc, handler, df, result, trace, pred, answer, frames,
          boot, logsDir, env, config, srvLog>>

-----------------------------------------------------------------------------
(* Bounds and input sets *)

MaxRows == 2

Callers == {"c1", "c2"}

Handlers == {"stock_us_hist", "stock_hk_hist", "stock_zh_a_hist",
             "tools_stock_hk_hist"}

Symbols == {"AAPL"}

Periods == {"daily", "weekly", "monthly", "yearly"}

Adjusts == {"", "qfq", "hfq"}

DateStrings ==
    { <<"2","0","2","1","0","1","0","1">>,
      <<"2","0","2","1","-","0","1","-","0","1">>,
      <<"a","b","c","d","e","f","g","h">>,
      <<"2","0","2","1","1","3","0","1">>,
      <<"2","0","2","1","0","2","2","9">>,
      <<"2","0","2","1","1","1">> }

ExcTexts == {"Connection timed out"}

-----------------------------------------------------------------------------
(* datetime.strptime(s, "%Y%m%d") *)

Digits == <<"0","1","2","3","4","5","6","7","8","9">>

IsDigit(c) == \E i \in 1..10 : Digits[i] = c

DigitVal(c) == (CHOOSE i \in 1..10 : Digits[i] = c) - 1

At(s, i) == IF i >= 1 /\ i <= Len(s) THEN s[i] ELSE ""

IsNonZeroDigit(c) == IsDigit(c) /\ c # "0"

\* The alternatives of (?P<m>1[0-2]|0[1-9]|[1-9]) that match at position i,
\* in the order the regex engine tries them; each is [len, val].
MonthAlts(s, i) ==
    LET a == At(s, i)
        b == At(s, i + 1)
        alt1 == IF a = "1" /\ b \in {"0","1","2"}
                THEN <<[len |-> 2, val |-> 10 + DigitVal(b)]>> ELSE <<>>
        alt2 == IF a = "0" /\ IsNonZeroDigit(b)
                THEN <<[len |-> 2, val |-> DigitVal(b)]>> ELSE <<>>
        alt3 == IF IsNonZeroDigit(a)
                THEN <<[len |-> 1, val |-> DigitVal(a)]>> ELSE <<>>
    IN  alt1 \o alt2 \o alt3

\* The alternatives of (?P<d>3[0-1]|[1-2]\d|0[1-9]|[1-9]| [1-9]) at position i.
DayAlts(s, i) ==
    LET a == At(s, i)
        b == At(s, i + 1)
        alt1 == IF a = "3" /\ b \in {"0","1"}
                THEN <<[len |-> 2, val |-> 30 + DigitVal(b)]>> ELSE <<>>
        alt2 == IF a \in {"1","2"} /\ IsDigit(b)
                THEN <<[len |-> 2, val |-> 10 * DigitVal(a) + DigitVal(b)]>>
                ELSE <<>>
        alt3 == IF a = "0" /\ IsNonZeroDigit(b)
                THEN <<[len |-> 2, val |-> DigitVal(b)]>> ELSE <<>>
        alt4 == IF IsNonZeroDigit(a)
                THEN <<[len |-> 1, val |-> DigitVal(a)]>> ELSE <<>>
        alt5 == IF a = " " /\ IsNonZeroDigit(b)
                THEN <<[len |-> 2, val |-> DigitVal(b)]>> ELSE <<>>
    IN  alt1 \o alt2 \o alt3 \o alt4 \o alt5

\* format_regex.match(data_string): the first way, in backtracking order, to
\* match (?P<Y>\d\d\d\d)(?P<m>...)(?P<d>...) at the start of s.
RegexMatch(s) ==
    LET yearOk == \A i \in 1..4 : IsDigit(At(s, i))
        ms == MonthAlts(s, 5)
        usable == IF yearOk
                  THEN SelectSeq(ms, LAMBDA m : DayAlts(s, 5 + m.len) # <<>>)
                  ELSE <<>>
    IN  IF usable = <<>>
        THEN [found |-> FALSE, y |-> 0, m |-> 0, d |-> 0, end |-> 0]
        ELSE LET m == usable[1]
                 d == DayAlts(s, 5 + m.len)[1]
             IN  [found |-> TRUE,
                  y |-> 1000 * DigitVal(s[1]) + 100 * DigitVal(s[2])
                        + 10 * DigitVal(s[3]) + DigitVal(s[4]),
                  m |-> m.val, d |-> d.val, end |-> 4 + m.len + d.len]

IsLeap(y) == (y % 4 = 0) /\ ((y % 100 # 0) \/ (y % 400 = 0))

DaysInMonth(y, m) ==
    IF m = 2 THEN (IF IsLeap(y) THEN 29 ELSE 28)
    ELSE IF m \in {4, 6, 9, 11} THEN 30 ELSE 31

\* TRUE iff datetime.strptime(s, "%Y%m%d") returns; FALSE iff it raises
\* ValueError (no match, unconverted data remains, or no such calendar day).
strptime(s) ==
    LET r == RegexMatch(s)
    IN  /\ r.found
        /\ r.end = Len(s)
        /\ r.y >= 1
        /\ r.d <= DaysInMonth(r.y, r.m)

-----------------------------------------------------------------------------
(* Record sets (pandas DataFrame objects) as the provider produces them *)

\* A cell of the date column: a datetime.date object or a string.
DateObj(y, m, d) == [t |-> "date", y |-> y, m |-> m, d |-> d, s |-> <<>>]

StrCell(chars) == [t |-> "str", y |-> 0, m |-> 0, d |-> 0, s |-> chars]

TwoDigits(n) == <<Digits[((n \div 10) % 10) + 1], Digits[(n % 10) + 1]>>

\* Timestamp.strftime('%Y-%m-%d')
strftime(ts) ==
    TwoDigits(ts.y \div 100) \o TwoDigits(ts.y % 100) \o <<"-">>
        \o TwoDigits(ts.m) \o <<"-">> \o TwoDigits(ts.d)

\* to_datetime reading the strings day first (YYYY-DD-MM).
to_datetime_dayfirst(cell) ==
    CASE cell.t = "date" -> [y |-> cell.y, m |-> cell.m, d |-> cell.d]
      [] cell.t = "str" /\ Len(cell.s) = 10 ->
            [y |-> 1000 * DigitVal(cell.s[1]) + 100 * DigitVal(cell.s[2])
                   + 10 * DigitVal(cell.s[3]) + DigitVal(cell.s[4]),
             m |-> 10 * DigitVal(cell.s[9]) + DigitVal(cell.s[10]),
             d |-> 10 * DigitVal(cell.s[6]) + DigitVal(cell.s[7])]

\* pd.to_datetime on one cell: a date object is taken as it is, an ISO 8601
\* string YYYY-MM-DD is parsed field by field.
to_datetime(cell) ==
    CASE cell.t = "date" -> [y |-> cell.y, m |-> cell.m, d |-> cell.d]
      [] cell.t = "str" /\ Len(cell.s) = 10
                        /\ cell.s[5] = "-" /\ cell.s[8] = "-" ->
            [y |-> 1000 * DigitVal(cell.s[1]) + 100 * DigitVal(cell.s[2])
                   + 10 * DigitVal(cell.s[3]) + DigitVal(cell.s[4]),
             m |-> 10 * DigitVal(cell.s[6]) + DigitVal(cell.s[7]),
             d |-> 10 * DigitVal(cell.s[9]) + DigitVal(cell.s[10])]

DateCol == "riqi"

CloseCol == "shoupan"

NoFrame == [columns |-> <<>>, rows |-> <<>>]

\* The i-th record of a well-formed answer: consecutive trading days from
\* 2021-01-04 and a closing price in cents.
RowDate(i) == [y |-> 2021, m |-> 1, d |-> 3 + i]

RowClose(i) == 12345 + i

DateCell(rep, i) ==
    IF rep = "date" THEN DateObj(RowDate(i).y, RowDate(i).m, RowDate(i).d)
    ELSE StrCell(strftime(RowDate(i)))

MkFrame(hasDate, rep, n) ==
    IF hasDate
    THEN [columns |-> <<DateCol, CloseCol>>,
          rows |-> [i \in 1..n |-> [riqi |-> DateCell(rep, i),
                                    shoupan |-> RowClose(i)]]]
    ELSE [columns |-> <<CloseCol>>,
          rows |-> [i \in 1..n |-> [shoupan |-> RowClose(i)]]]

\* The record sets a provider may hand back: empty, or 1..MaxRows records,
\* with or without a date column, dates as date objects or as ISO strings.
ProviderFrames ==
    {MkFrame(TRUE, "date", 0)}
        \cup {MkFrame(FALSE, "date", n) : n \in 1..MaxRows}
        \cup {MkFrame(TRUE, rep, n) : rep \in {"date", "iso"}, n \in 1..MaxRows}

HasColumn(frame, c) == \E i \in 1..Len(frame.columns) : frame.columns[i] = c

\* IsEmpty looking at the columns only.
IsEmptyNoColumns(frame) == Len(frame.columns) = 0

\* df.empty
IsEmpty(frame) == Len(frame.rows) = 0 \/ Len(frame.columns) = 0

\* df['riqi'] = pd.to_datetime(df['riqi']).dt.strftime('%Y-%m-%d'), guarded
\* by the test that the column is there: the column of the frame is replaced.
FormatDates(frame) ==
    IF HasColumn(frame, DateCol)
    THEN [frame EXCEPT !.rows =
            [i \in 1..Len(frame.rows) |->
                [frame.rows[i] EXCEPT
                    !.riqi = StrCell(strftime(to_datetime(@)))]]]
    ELSE frame

\* One cell as tabulate prints it: str() of a date object is YYYY-MM-DD, a
\* string prints as it is, a float prints under floatfmt='.2f'.
RenderDate(cell) ==
    IF cell.t = "date" THEN strftime([y |-> cell.y, m |-> cell.m, d |-> cell.d])
    ELSE cell.s

RenderFloat(cents) ==
    <<ToString(cents \div 100), ".">> \o TwoDigits(cents % 100)

RenderRow(frame, row) ==
    [k \in 1..Len(frame.columns) |->
        IF frame.columns[k] = DateCol THEN RenderDate(row.riqi)
        ELSE RenderFloat(row.shoupan)]

\* df.to_markdown(index=False, floatfmt='.2f'): a header line, a separator
\* line, then one line per record.  A line is a sequence of fields.
to_markdown(frame) ==
    << [k \in 1..Len(frame.columns) |-> <<frame.columns[k]>>],
       [k \in 1..Len(frame.columns) |->
            IF frame.columns[k] = DateCol THEN <<":---">> ELSE <<"---:">>] >>
    \o [i \in 1..Len(frame.rows) |-> RenderRow(frame, frame.rows[i])]

-----------------------------------------------------------------------------
(* What a call returns *)

NoResult == [kind |-> "none", code |-> "", error |-> <<>>, text |-> <<>>]

\* json.dumps({"error": ..., "code": ...}, ensure_ascii=False)
ErrorResult(code, error) ==
    [kind |-> "error", code |-> code, error |-> error, text |-> <<>>]

ReportResult(text) ==
    [kind |-> "report", code |-> "", error |-> <<>>, text |-> text]

\* ValidPeriod with a fourth period let through.
ValidPeriodLax(period) == period \in {"daily", "weekly", "monthly", "yearly"}

\* period not in ['daily', 'weekly', 'monthly'] is the negation of this.
ValidPeriod(period) == period \in {"daily", "weekly", "monthly"}

InvalidPeriod ==
    ErrorResult("INVALID_PERIOD",
        <<"period canshu bixu shi 'daily', 'weekly', 'monthly' zhi yi">>)

\* The inner try: both dates go through strptime; ValueError from either one
\* takes the except branch.
ValidDates(start_date, end_date) == strptime(start_date) /\ strptime(end_date)

InvalidDateFormat ==
    ErrorResult("INVALID_DATE_FORMAT",
        <<"riqi geshi cuowu, qing shiyong YYYYMMDD geshi">>)

NoDataFound ==
    ErrorResult("NO_DATA_FOUND",
        <<"wei zhaodao shuju, qing jiancha gupiao daima huo riqi fanwei">>)

\* The prefix each copy puts before str(e).
ErrorPrefix(h) ==
    CASE h = "stock_us_hist" -> "huoqu meigu lishi shuju shibai: "
      [] h = "stock_hk_hist" -> "huoqu ganggu lishi shuju shibai: "
      [] h = "stock_zh_a_hist" -> "huoqu A gu lishi shuju shibai: "
      [] h = "tools_stock_hk_hist" -> "huoqu ganggu lishi shuju shibai: "

\* OnException without str(e) in the message.
OnExceptionNoText(h, text) == ErrorResult("API_ERROR", <<ErrorPrefix(h)>>)

\* except Exception as e: the outer handler of every copy.
OnException(h, text) == ErrorResult("API_ERROR", <<ErrorPrefix(h), text>>)

\* AdjustLabel with the two adjusted labels exchanged.
AdjustLabelSwapped(adjust) ==
    IF adjust = "" THEN "bufuquan"
    ELSE IF adjust = "qfq" THEN "houfuquan" ELSE "qianfuquan"

\* 'bufuquan' if adjust == '' else 'qianfuquan' if adjust == 'qfq'
\* else 'houfuquan'
AdjustLabel(adjust) ==
    IF adjust = "" THEN "bufuquan"
    ELSE IF adjust = "qfq" THEN "qianfuquan" ELSE "houfuquan"

SymbolKey == "**gupiao daima**: "
PeriodKey == "**shuju zhouqi**: "
RangeKey == "**riqi fanwei**: "
AdjustKey == "**fuquan fangshi**: "
CountKey == "**shuju tiaoshu**: "
CurrencyKey == "**huobi danwei**: "
VolumeKey == "**chengjiaoliang danwei**: "
SourceLine == "*shuju laiyuan: dongfang caifu wang*"
Break == <<"  ">>
Blank == <<>>

\* The metadata lines every template shares up to the record count; a line
\* is a sequence of fields, a field a sequence of strings.
HeaderLines(r, frame) ==
    << <<<<SymbolKey>>, <<r.symbol>>, Break>>,
       <<<<PeriodKey>>, <<r.period>>, Break>>,
       <<<<RangeKey>>, r.start_date, <<" ~ ">>, r.end_date, Break>>,
       <<<<AdjustKey>>, <<AdjustLabel(r.adjust)>>, Break>>,
       <<<<CountKey>>, <<ToString(Len(frame.rows))>>, <<" tiao">>, Break>> >>

ReportUS(r, frame) ==
    << <<<<"# meigu lishi hangqing shuju">>>>, Blank >>
    \o HeaderLines(r, frame)
    \o << <<<<CurrencyKey>>, <<"meiyuan (USD)">>>>, Blank >>
    \o to_markdown(frame)
    \o << Blank, <<<<SourceLine>>>> >>

ReportHK(r, frame) ==
    << <<<<"# ganggu lishi hangqing shuju">>>>, Blank >>
    \o HeaderLines(r, frame)
    \o << <<<<CurrencyKey>>, <<"gangyuan (HKD)">>>>, Blank >>
    \o to_markdown(frame)
    \o << Blank, <<<<SourceLine>>>> >>

ReportZhA(r, frame) ==
    << <<<<"# A gu lishi hangqing shuju">>>>, Blank >>
    \o HeaderLines(r, frame)
    \o << <<<<CurrencyKey>>, <<"renminbi (CNY)">>, Break>>,
          <<<<VolumeKey>>, <<"shou (1 shou = 100 gu)">>>>, Blank >>
    \o to_markdown(frame)
    \o << Blank, <<<<SourceLine>>, Break>>,
          <<<<"*zhu: chengjiaoliang danwei wei shou, chengjiao'e danwei wei yuan*">>>> >>

\* ReportTool with the empty line before the table lost.
ReportToolDrift(r, frame) ==
    << <<<<"# ganggu lishi hangqing shuju">>>>, Blank >>
    \o HeaderLines(r, frame)
    \o << <<<<CurrencyKey>>, <<"gangyuan (HKD)">>>> >>
    \o to_markdown(frame)
    \o << Blank, <<<<SourceLine>>>> >>

\* The template of tools/stock_hk_hist.py: the same text written with \n
\* escapes, split here at every line end (escaped or literal).
ReportTool(r, frame) ==
    << <<<<"# ganggu lishi hangqing shuju">>>>,
       Blank,
       <<<<SymbolKey>>, <<r.symbol>>, Break>>,
       <<<<PeriodKey>>, <<r.period>>, Break>>,
       <<<<RangeKey>>, r.start_date, <<" ~ ">>, r.end_date, Break>>,
       <<<<AdjustKey>>, <<AdjustLabel(r.adjust)>>, Break>>,
       <<<<CountKey>>, <<ToString(Len(frame.rows))>>, <<" tiao">>, Break>>,
       <<<<CurrencyKey>>, <<"gangyuan (HKD)">>>>,
       Blank >>
    \o to_markdown(frame)
    \o << Blank, <<<<SourceLine>>>> >>

Report(h, r, frame) ==
    CASE h = "stock_us_hist" -> ReportUS(r, frame)
      [] h = "stock_hk_hist" -> ReportHK(r, frame)
      [] h = "stock_zh_a_hist" -> ReportZhA(r, frame)
      [] h = "tools_stock_hk_hist" -> ReportTool(r, frame)

-----------------------------------------------------------------------------
(* The data provider (ak.stock_us_hist, ak.stock_hk_hist, ak.stock_zh_a_hist)*)

Requests ==
    [symbol : Symbols, period : Periods, start_date : DateStrings,
     end_date : DateStrings, adjust : Adjusts]

Unasked == [kind |-> "unasked", text |-> "", cached |-> FALSE, data |-> NoFrame]

\* A deterministic provider: for the arguments at hand it raises an exception
\* with some text, or returns a record set, either a fresh object on every
\* invocation or one object it keeps and hands back every time.
ProviderAnswers ==
    {[kind |-> "raise", text |-> x, cached |-> FALSE, data |-> NoFrame] :
        x \in ExcTexts}
    \cup {[kind |-> "return", text |-> "", cached |-> k, data |-> f] :
        k \in BOOLEAN, f \in ProviderFrames}

FrameIds == {"cached"} \cup Callers

\* The object the provider returns to caller c under answer a.
Returned(a, c) == IF a.cached THEN "cached" ELSE c

-----------------------------------------------------------------------------
(* The handlers: stock_us_hist, stock_hk_hist, stock_zh_a_hist of the      *)
(* server and stock_hk_hist of tools/, which run the same steps            *)

InfoRequest == "INFO request"
InfoCount == "INFO record count"
ErrorEntry == "ERROR failure"
ProviderCall == "provider call"

\* Entry of the handler up to the provider call: the request is logged, then
\* the period is checked, then the two dates.
Begin(c, h) ==
    /\ pc[c] \in {"idle", "done"}
    /\ handler' = [handler EXCEPT ![c] = h]
    /\ trace' = [trace EXCEPT ![c] = <<InfoRequest>>]
    /\ pred' = [x \in Callers |->
                  IF x = c THEN {y \in Callers \ {c} : pc[y] = "done"}
                  ELSE pred[x] \ {c}]
    /\ df' = [df EXCEPT ![c] = "none"]
    /\ frames' = [frames EXCEPT ![c] = NoFrame]
    /\ IF ~ValidPeriod(req.period)
       THEN /\ result' = [result EXCEPT ![c] = InvalidPeriod]
            /\ pc' = [pc EXCEPT ![c] = "done"]
       ELSE IF ~ValidDates(req.start_date, req.end_date)
       THEN /\ result' = [result EXCEPT ![c] = InvalidDateFormat]
            /\ pc' = [pc EXCEPT ![c] = "done"]
       ELSE /\ result' = [result EXCEPT ![c] = NoResult]
            /\ pc' = [pc EXCEPT ![c] = "fetch"]
    /\ UNCHANGED <<req, answer, boot, logsDir, env, config, srvLog>>

\* df = ak.stock_xx_hist(...) and the test of df.empty; an exception of the
\* provider goes to the outer except branch, which logs it and returns.
Fetch(c) ==
    /\ pc[c] = "fetch"
    /\ \E a \in (IF answer.kind = "unasked" THEN ProviderAnswers ELSE {answer}) :
        /\ answer' = a
        /\ IF a.kind = "raise"
           THEN /\ trace' = [trace EXCEPT ![c] = @ \o <<ProviderCall, ErrorEntry>>]
                /\ result' = [result EXCEPT ![c] = OnException(handler[c], a.text)]
                /\ pc' = [pc EXCEPT ![c] = "done"]
                /\ UNCHANGED <<df, frames>>
           ELSE /\ trace' = [trace EXCEPT ![c] = @ \o <<ProviderCall>>]
                /\ frames' = IF a.cached /\ answer.kind # "unasked" THEN frames
                             ELSE [frames EXCEPT ![Returned(a, c)] = a.data]
                /\ df' = [df EXCEPT ![c] = Returned(a, c)]
                /\ IF IsEmpty(frames'[Returned(a, c)])
                   THEN /\ result' = [result EXCEPT ![c] = NoDataFound]
                        /\ pc' = [pc EXCEPT ![c] = "done"]
                   ELSE /\ result' = result
                        /\ pc' = [pc EXCEPT ![c] = "format"]
    /\ UNCHANGED <<req, handler, pred, boot, logsDir, env, config, srvLog>>

\* The date column is rewritten in df, the table and the report are built
\* from df, the record count is logged and the report returned.
Format(c) ==
    /\ pc[c] = "format"
    /\ frames' = [frames EXCEPT ![df[c]] = FormatDates(@)]
    /\ result' = [result EXCEPT ![c] =
                    ReportResult(Report(handler[c], req, frames'[df[c]]))]
    /\ trace' = [trace EXCEPT ![c] = @ \o <<InfoCount>>]
    /\ pc' = [pc EXCEPT ![c] = "done"]
    /\ UNCHANGED <<req, handler, df, pred, answer, boot, logsDir, env, config, srvLog>>

-----------------------------------------------------------------------------
(* Start-up: start_server.py imports akshare_mcp_server and calls main()   *)

Hosts == {"unset", "0.0.0.0", "localhost"}
Ports == {"unset", "9000"}
Transports == {"unset", "stdio", "streamable-http"}

Environments == [HOST : Hosts, PORT : Ports, TRANSPORT : Transports]

Getenv(e, name, default) == IF e[name] = "unset" THEN default ELSE e[name]

NoConfig == [host |-> "", port |-> "", transport |-> "", server_name |-> ""]

\* class ServerConfig: the defaults are read from the environment when the
\* class body runs, which is when the module is imported.
ServerConfig(e) ==
    [host |-> Getenv(e, "HOST", "127.0.0.1"),
     port |-> Getenv(e, "PORT", "8005"),
     transport |-> Getenv(e, "TRANSPORT", "sse"),
     server_name |-> "AkShare-MCP-Server"]

\* from akshare_mcp_server import main: the module body runs.  Its
\* logging.basicConfig builds FileHandler('logs/akshare_mcp.log'), which
\* opens the file at once and raises FileNotFoundError when logs/ is not
\* there; the import statement is outside the try of the start script.
ImportModule ==
    /\ boot = "start"
    /\ IF logsDir
       THEN /\ boot' = "imported"
            /\ config' = ServerConfig(env)
       ELSE /\ boot' = "import_failed"
            /\ config' = config
    /\ UNCHANGED <<logsDir, env, srvLog>>
    /\ UNCHANGED hvars

\* main(): config = ServerConfig(); os.makedirs("logs", exist_ok=True)
MainMakedirs ==
    /\ boot = "imported"
    /\ logsDir' = TRUE
    /\ boot' = "dir_ensured"
    /\ UNCHANGED <<env, config, srvLog>>
    /\ UNCHANGED hvars

\* main(): the three logger.info lines
MainLog ==
    /\ boot = "dir_ensured"
    /\ srvLog' = srvLog \o << <<"INFO", "qidong", config.server_name>>,
                             <<"INFO", "chuanshu xieyi", config.transport>>,
                             <<"INFO", "fuwu dizhi", config.host, config.port>> >>
    /\ boot' = "logged"
    /\ UNCHANGED <<logsDir, env, config>>
    /\ UNCHANGED hvars

\* main(): mcp.run(...) serves, or raises: an Exception is logged and raised
\* again, and the start script prints it and exits with status 1.
MainRun ==
    /\ boot = "logged"
    /\ \/ /\ boot' = "serving"
          /\ srvLog' = srvLog
       \/ /\ boot' = "exit_1"
          /\ srvLog' = srvLog \o << <<"ERROR", "fuwuqi qidong shibai">> >>
    /\ UNCHANGED <<logsDir, env, config>>
    /\ UNCHANGED hvars

\* Ctrl+C while serving: KeyboardInterrupt passes main's except Exception
\* and is caught by the start script.
Interrupt ==
    /\ boot = "serving"
    /\ boot' = "stopped"
    /\ UNCHANGED <<logsDir, env, config, srvLog>>
    /\ UNCHANGED hvars

-----------------------------------------------------------------------------
(* Specifications *)

IdleHandlers ==
    /\ pc = [c \in Callers |-> "idle"]
    /\ handler = [c \in Callers |-> "none"]
    /\ df = [c \in Callers |-> "none"]
    /\ result = [c \in Callers |-> NoResult]
    /\ trace = [c \in Callers |-> <<>>]
    /\ pred = [c \in Callers |-> {}]
    /\ answer = Unasked
    /\ frames = [f \in FrameIds |-> NoFrame]

\* The handlers, called on a server whose module has been imported.
Init ==
    /\ req \in Requests
    /\ IdleHandlers
    /\ boot = "imported"
    /\ logsDir = TRUE
    /\ env = [HOST |-> "unset", PORT |-> "unset", TRANSPORT |-> "unset"]
    /\ config = ServerConfig(env)
    /\ srvLog = <<>>

Next ==
    \/ \E c \in Callers, h \in Handlers : Begin(c, h)
    \/ \E c \in Callers : Fetch(c)
    \/ \E c \in Callers : Format(c)

Spec == Init /\ [][Next]_vars

\* The start script, from any environment, with or without logs/.
InitBoot ==
    /\ req = [symbol |-> "AAPL", period |-> "daily",
              start_date |-> <<"2","0","2","1","0","1","0","1">>,
              end_date |-> <<"2","0","2","1","0","1","0","1">>,
              adjust |-> ""]
    /\ IdleHandlers
    /\ boot = "start"
    /\ logsDir \in BOOLEAN
    /\ env \in Environments
    /\ config = NoConfig
    /\ srvLog = <<>>

NextBoot ==
    \/ ImportModule
    \/ MainMakedirs
    \/ MainLog
    \/ MainRun
    \/ Interrupt

SpecBoot == InitBoot /\ [][NextBoot]_vars

-----------------------------------------------------------------------------
(* Properties *)

Done(c) == pc[c] = "done"

Count(seq, x) == Cardinality({i \in DOMAIN seq : seq[i] = x})

Invoked(c) == Count(trace[c], ProviderCall)

Index(seq, x) == CHOOSE i \in DOMAIN seq : seq[i] = x

ErrorCodes == {"INVALID_PERIOD", "INVALID_DATE_FORMAT", "NO_DATA_FOUND", "API_ERROR"}

\* An 8-digit string that denotes a real calendar day, year-month-day.
IsEightDigitDate(s) ==
    /\ Len(s) = 8
    /\ \A i \in 1..8 : IsDigit(s[i])
    /\ LET y == 1000 * DigitVal(s[1]) + 100 * DigitVal(s[2])
                + 10 * DigitVal(s[3]) + DigitVal(s[4])
           m == 10 * DigitVal(s[5]) + DigitVal(s[6])
           d == 10 * DigitVal(s[7]) + DigitVal(s[8])
       IN  y >= 1 /\ m \in 1..12 /\ d >= 1 /\ d <= DaysInMonth(y, m)

PeriodListed == req.period \in {"daily", "weekly", "monthly"}

\* C1: with a period other than daily, weekly, monthly every call of every
\* handler returns the error INVALID_PERIOD, whatever the dates are, and the
\* provider is not invoked: no call gets past the entry of the handler.
C1_InvalidPeriod ==
    ~PeriodListed =>
        \A c \in Callers :
            /\ pc[c] \in {"idle", "done"}
            /\ Done(c) => /\ result[c].kind = "error"
                          /\ result[c].code = "INVALID_PERIOD"
                          /\ Invoked(c) = 0

C1_Witness ==
    \E c \in Callers :
        /\ Done(c)
        /\ req.period = "yearly"
        /\ ~IsEightDigitDate(req.start_date)
        /\ result[c].code = "INVALID_PERIOD"
        /\ handler[c] = "stock_zh_a_hist"

\* C2: with a listed period, a start_date or end_date that is not an 8-digit
\* calendar date makes the call return INVALID_DATE_FORMAT without invoking
\* the provider.
C2_InvalidDateFormat ==
    (PeriodListed /\ ~(IsEightDigitDate(req.start_date)
                        /\ IsEightDigitDate(req.end_date))) =>
        \A c \in Callers :
            /\ pc[c] \in {"idle", "done"}
            /\ Done(c) => /\ result[c].kind = "error"
                          /\ result[c].code = "INVALID_DATE_FORMAT"
                          /\ Invoked(c) = 0

\* C3: every call that returned gave a report or an error with one of the
\* four codes, and when the provider raised, the error is API_ERROR and its
\* message holds the text of the exception.
C3_ExceptionsCaught ==
    \A c \in Callers :
        Done(c) =>
            /\ result[c].kind \in {"report", "error"}
            /\ result[c].kind = "error" => result[c].code \in ErrorCodes
            /\ (Invoked(c) > 0 /\ answer.kind = "raise") =>
                    /\ result[c].kind = "error"
                    /\ result[c].code = "API_ERROR"
                    /\ \E i \in DOMAIN result[c].error :
                            result[c].error[i] = answer.text

C3_Witness ==
    \E c \in Callers :
        /\ Done(c)
        /\ answer.kind = "raise"
        /\ Invoked(c) = 1
        /\ result[c].code = "API_ERROR"

\* C4: a call whose provider returned zero records returns NO_DATA_FOUND,
\* and NO_DATA_FOUND is returned only by a call that invoked the provider
\* exactly once and got zero records.
C4_NoDataFound ==
    \A c \in Callers :
        Done(c) =>
            /\ (Invoked(c) > 0 /\ answer.kind = "return"
                    /\ Len(answer.data.rows) = 0) =>
                    /\ result[c].kind = "error"
                    /\ result[c].code = "NO_DATA_FOUND"
            /\ result[c].code = "NO_DATA_FOUND" =>
                    /\ Invoked(c) = 1
                    /\ answer.kind = "return"
                    /\ Len(answer.data.rows) = 0

C4_Witness ==
    \E c \in Callers :
        /\ Done(c)
        /\ result[c].code = "NO_DATA_FOUND"
        /\ Invoked(c) = 1
        /\ Len(answer.data.rows) = 0

\* The line of a report that starts with the given key.
LineOf(text, key) ==
    text[CHOOSE i \in DOMAIN text : text[i] # <<>> /\ text[i][1] = <<key>>]

HasLine(text, key) ==
    Cardinality({i \in DOMAIN text : text[i] # <<>> /\ text[i][1] = <<key>>}) = 1

IsSeparator(line) ==
    /\ line # <<>>
    /\ \A k \in DOMAIN line : line[k] \in {<<":---">>, <<"---:">>}

\* The number of table lines between the separator line and the next
\* empty line.
DataRows(text) ==
    LET k == CHOOSE i \in DOMAIN text : IsSeparator(text[i])
        e == CHOOSE j \in DOMAIN text :
                /\ j > k
                /\ text[j] = <<>>
                /\ \A x \in (k + 1)..(j - 1) : text[x] # <<>>
    IN  e - k - 1

MarketCurrency(h) ==
    CASE h = "stock_us_hist" -> "meiyuan (USD)"
      [] h \in {"stock_hk_hist", "tools_stock_hk_hist"} -> "gangyuan (HKD)"
      [] h = "stock_zh_a_hist" -> "renminbi (CNY)"

AdjustmentName ==
    CASE req.adjust = "" -> "bufuquan"
      [] req.adjust = "qfq" -> "qianfuquan"
      [] req.adjust = "hfq" -> "houfuquan"

\* C5: a call whose provider returned N >= 1 records returns a report whose
\* header holds the symbol, the period and the two dates as requested, the
\* count N, the currency of the market and the label of the adjustment, and
\* whose table has N data rows.
C5_Report ==
    \A c \in Callers :
        (Done(c) /\ Invoked(c) > 0 /\ answer.kind = "return"
                 /\ Len(answer.data.rows) >= 1) =>
            /\ result[c].kind = "report"
            /\ LET text == result[c].text
               IN  /\ \A k \in {SymbolKey, PeriodKey, RangeKey, AdjustKey,
                                CountKey, CurrencyKey} : HasLine(text, k)
                   /\ LineOf(text, SymbolKey)[2] = <<req.symbol>>
                   /\ LineOf(text, PeriodKey)[2] = <<req.period>>
                   /\ LineOf(text, RangeKey)[2] = req.start_date
                   /\ LineOf(text, RangeKey)[4] = req.end_date
                   /\ LineOf(text, AdjustKey)[2] = <<AdjustmentName>>
                   /\ LineOf(text, CountKey)[2] =
                            <<ToString(Len(answer.data.rows))>>
                   /\ LineOf(text, CurrencyKey)[2] =
                            <<MarketCurrency(handler[c])>>
                   /\ DataRows(text) = Len(answer.data.rows)

C5_Witness ==
    \E c \in Callers :
        /\ Done(c)
        /\ result[c].kind = "report"
        /\ req.adjust = "qfq"
        /\ handler[c] = "stock_zh_a_hist"
        /\ Len(answer.data.rows) >= 2
        /\ DataRows(result[c].text) >= 2

Validated == ValidPeriod(req.period) /\ ValidDates(req.start_date, req.end_date)

\* C6: the log entries of a call: the request is echoed once, before the
\* provider is invoked, and only when the request passed validation; a
\* report is followed by one entry with the record count; every error
\* result comes with exactly one error-level entry.
C6_LogPattern ==
    \A c \in Callers :
        Done(c) =>
            /\ Count(trace[c], InfoRequest) = (IF Validated THEN 1 ELSE 0)
            /\ Invoked(c) > 0 =>
                    Index(trace[c], InfoRequest) < Index(trace[c], ProviderCall)
            /\ result[c].kind = "report" =>
                    /\ Count(trace[c], InfoCount) = 1
                    /\ Index(trace[c], ProviderCall) < Index(trace[c], InfoCount)
            /\ result[c].kind = "error" => Count(trace[c], ErrorEntry) = 1

\* C7: every record set is as the provider produced it.
C7_RecordsUnchanged ==
    \A f \in FrameIds : frames[f] \in {NoFrame, answer.data}

\* C8: two calls of one handler with the same arguments, the second begun
\* after the first returned, return the same value.
C8_Idempotent ==
    \A p, q \in Callers :
        (Done(p) /\ Done(q) /\ p \in pred[q] /\ handler[p] = handler[q]) =>
            result[p] = result[q]

C8_Witness ==
    \E p, q \in Callers :
        /\ Done(p) /\ Done(q) /\ p \in pred[q]
        /\ handler[p] = handler[q]
        /\ result[q].kind = "report"
        /\ answer.cached
        /\ df[p] = "cached" /\ df[q] = "cached"
        /\ frames["cached"] # answer.data

\* C9: two calls with the same arguments against the same provider end the
\* same way whatever handler ran them: the same kind of result, the same
\* error code, the same sequence of log entries and provider invocations;
\* and tools/stock_hk_hist returns what the server's stock_hk_hist returns.
C9_NoDrift ==
    \A p, q \in Callers :
        (Done(p) /\ Done(q)) =>
            /\ result[p].kind = result[q].kind
            /\ result[p].code = result[q].code
            /\ trace[p] = trace[q]
            /\ (handler[p] = "stock_hk_hist"
                    /\ handler[q] = "tools_stock_hk_hist") =>
                    result[p] = result[q]

C9_Witness ==
    \E p, q \in Callers :
        /\ Done(p) /\ Done(q)
        /\ handler[p] = "stock_hk_hist"
        /\ handler[q] = "tools_stock_hk_hist"
        /\ result[p].kind = "report"
        /\ result[q].kind = "report"

\* C10: start-up does not fail while the logging is set up: the directory
\* logs/ is there before the file handler opens its file.
C10_LogsDirEnsured == boot # "import_failed"

====
